---- MODULE Spec2Model ----
(***************************************************************************)
(* A model of the watch-exchange bot (src/src/wemb/bot.py) and of its      *)
(* utility module (src/src/wemb/common.py).                                *)
(*                                                                         *)
(* The specifications of the module:                                       *)
(*   Spec / FairSpec  the process lifecycle: run_bot, the signal handlers, *)
(*                    the event loop's tasks and the __shutdown routine;   *)
(*   SpecServe        the chat client's tasks while no signal arrives;     *)
(*   SpecStore        the /searches commands against the relational store; *)
(*   SpecStoreFeed    the same with the monitor's cycles beside them;      *)
(*   SpecFeed         the monitor's evaluation of feed items;              *)
(*   SpecSync         the %sync text command and its error handler;        *)
(*   SpecCommon       set_log_level, get_logger and get_engine.            *)
(***************************************************************************)
EXTENDS Integers, Sequences, FiniteSets, TLC

\* ------------------------------------------------------------------ bounds
\* Termination signals delivered to the process.
MaxSignals == 2
\* Events the chat client dispatches as tasks while the lifecycle is observed:
\* 'ready' events (a reconnect dispatches another) and inbound commands.
MaxDispatch == 1
\* Events the chat client dispatches while the serving of commands, without
\* any signal, is observed: room for a second 'ready' event next to commands.
MaxServe == 3
\* /searches interactions received while the store is observed.
MaxCmds == 2
\* %sync messages received while the command is observed.
MaxSyncs == 2
\* Calls of the functions of common.py while the utility is observed.
MaxCalls == 3
\* Monitor cycles (one feed item each) while the monitor is observed.
MaxCycles == 2

VARIABLES
    \* ---- lifecycle (run_bot, the event loop and its tasks)
    asyncSupported,      \* does loop.add_signal_handler work on this platform
    allow_dirty_shutdown,\* args.allow_dirty_shutdown
    rb,                  \* run_bot's position
    exitStatus,          \* the status given to sys.exit, -1 while not exited
    handlers,            \* the handler installed for each signal
    pendingSignals,      \* signals latched by the loop whose callback has not run
    sigCount,            \* signals delivered so far
    DB_ENGINE,           \* bot.py:36
    DB_SESSION,          \* bot.py:37
    MONITOR_COROUTINE,   \* bot.py:34
    disposeCount,        \* calls of DB_ENGINE.dispose()
    loop,                \* the event loop: new, running, stopped, closed
    stoppedBy,           \* the task that called loop.stop(), NoTask when none has
    tasks,               \* the loop's tasks
    cogs,                \* cogs registered with the bot
    readyCount,          \* 'ready' events dispatched
    cmdCount,            \* command tasks dispatched
    logged,              \* log lines of warning level and above
    \* ---- the relational store and the /searches commands
    criteria,            \* the criterion table: one record per row
    keywords,            \* the keyword table: rows in insertion order
    nextId,              \* the store's next criterion and keyword identities
    cmds,                \* the /searches interactions, one task each
    \* ---- the %sync text command
    syncs,               \* the %sync invocations, one task each
    treeSyncs,           \* calls of ctx.bot.tree.sync, in order
    guildCopies,         \* calls of ctx.bot.tree.copy_global_to, in order
    \* ---- the configuration and logging utility (common.py)
    LOG_LEVEL,           \* common.py:8
    ENGINE,              \* common.py:7
    created,             \* calls of create_engine
    commonLog,           \* records handed to the "wemb.common" logger
    calls,               \* the calls of get_logger and get_engine with their outcomes
    \* ---- the feed monitor
    notified,            \* notifications dispatched: item and criterion
    cycles               \* the feed items the monitor's cycles evaluated, in order

cfgVars == <<asyncSupported, allow_dirty_shutdown>>

lifeVars ==
    <<asyncSupported, allow_dirty_shutdown, rb, exitStatus, handlers,
      pendingSignals, sigCount, DB_ENGINE, DB_SESSION, MONITOR_COROUTINE,
      disposeCount, loop, stoppedBy, tasks, cogs, readyCount, cmdCount, logged>>

storeVars == <<criteria, keywords, nextId, cmds>>

syncVars == <<syncs, treeSyncs, guildCopies>>

commonVars == <<LOG_LEVEL, ENGINE, created, commonLog, calls>>

feedVars == <<notified, cycles>>

auxVars == <<commonVars, feedVars>>

vars == <<lifeVars, storeVars, syncVars, auxVars>>

Signals == {"SIGTERM", "SIGINT"}

\* ------------------------------------------------------------------ tasks
\* A task is named by the coroutine it runs and its number among the tasks of
\* that coroutine: the bot task, the k-th on_ready task, the monitor task the
\* k-th on_ready created, the k-th command task, the k-th __shutdown task.
MaxTasks == IF MaxServe > MaxDispatch THEN MaxServe ELSE MaxDispatch

TaskIds ==
    {<<"bot", 1>>}
        \cup ({"on_ready", "monitor", "command"} \X (1..MaxTasks))
        \cup ({"shutdown"} \X (1..MaxSignals))

NoTask == <<"none", 0>>

Kind(t) == t[1]

AbsentTask ==
    [pc |-> "none", state |-> "absent", must_cancel |-> FALSE, children |-> {}]

NewTask(pc) ==
    [pc |-> pc, state |-> "pending", must_cancel |-> FALSE, children |-> {}]

\* asyncio.all_tasks(): the tasks of the loop that are not done.
all_tasks == {t \in TaskIds : tasks[t].state = "pending"}

\* __shutdown tasks created so far.
ShutdownTasks == {t \in TaskIds : Kind(t) = "shutdown" /\ tasks[t].state # "absent"}

\* A task the loop can step into its coroutine's next statement.
Runnable(t) ==
    /\ loop = "running"
    /\ tasks[t].state = "pending"
    /\ ~tasks[t].must_cancel

Settled(t) == tasks[t].state \in {"finished", "failed", "cancelled"}

\* ------------------------------------------------------------------ run_bot
LifeInit ==
    /\ asyncSupported \in BOOLEAN
    /\ allow_dirty_shutdown \in BOOLEAN
    /\ rb = "register"
    /\ exitStatus = -1
    /\ handlers = [s \in Signals |-> "default"]
    /\ pendingSignals = 0
    /\ sigCount = 0
    /\ DB_ENGINE = "None"
    /\ DB_SESSION = "None"
    /\ MONITOR_COROUTINE = "None"
    /\ disposeCount = 0
    /\ loop = "new"
    /\ stoppedBy = NoTask
    /\ tasks = [t \in TaskIds |-> AbsentTask]
    /\ cogs = {}
    /\ readyCount = 0
    /\ cmdCount = 0
    /\ logged = {}

\* bot.py:257-261: both asyncio signal handlers are registered.
RunBot_RegisterAsync ==
    /\ rb = "register"
    /\ asyncSupported
    /\ handlers' = [s \in Signals |-> "loop_handler"]
    /\ rb' = "create_engine"
    /\ UNCHANGED <<storeVars, syncVars, auxVars, cfgVars, exitStatus,
                   pendingSignals, sigCount, DB_ENGINE, DB_SESSION,
                   MONITOR_COROUTINE, disposeCount, loop, stoppedBy, tasks,
                   cogs, readyCount, cmdCount, logged>>

\* Mutant of RunBot_Exit: the fallback without its "if not
\* args.allow_dirty_shutdown" test, which installs the synchronous handlers
\* whether or not the operator opted in.
RunBot_Exit_OptInIgnored ==
    /\ rb = "register"
    /\ ~asyncSupported
    /\ ~allow_dirty_shutdown
    /\ logged' = logged \cup {"warning_no_async_signals"}
    /\ handlers' = [s \in Signals |-> "dirty_shutdown"]
    /\ rb' = "create_engine"
    /\ UNCHANGED <<storeVars, syncVars, auxVars, cfgVars, exitStatus,
                   pendingSignals, sigCount, DB_ENGINE, DB_SESSION,
                   MONITOR_COROUTINE, disposeCount, loop, stoppedBy, tasks,
                   cogs, readyCount, cmdCount>>

\* bot.py:262-271: add_signal_handler raised NotImplementedError and the
\* operator did not opt in: log and sys.exit(1).
RunBot_Exit ==
    /\ rb = "register"
    /\ ~asyncSupported
    /\ ~allow_dirty_shutdown
    /\ logged' = logged \cup {"warning_no_async_signals", "error_opt_in_required"}
    /\ exitStatus' = 1
    /\ rb' = "exited"
    /\ UNCHANGED <<storeVars, syncVars, auxVars, cfgVars, handlers,
                   pendingSignals, sigCount, DB_ENGINE, DB_SESSION,
                   MONITOR_COROUTINE, disposeCount, loop, stoppedBy, tasks,
                   cogs, readyCount, cmdCount>>

\* bot.py:262-274: the opt-in is set: signal.signal installs __dirty_shutdown
\* for SIGINT and SIGTERM.
RunBot_DirtyFallback ==
    /\ rb = "register"
    /\ ~asyncSupported
    /\ allow_dirty_shutdown
    /\ logged' = logged \cup {"warning_no_async_signals"}
    /\ handlers' = [s \in Signals |-> "dirty_shutdown"]
    /\ rb' = "create_engine"
    /\ UNCHANGED <<storeVars, syncVars, auxVars, cfgVars, exitStatus,
                   pendingSignals, sigCount, DB_ENGINE, DB_SESSION,
                   MONITOR_COROUTINE, disposeCount, loop, stoppedBy, tasks,
                   cogs, readyCount, cmdCount>>

\* bot.py:278-279
RunBot_CreateEngine ==
    /\ rb = "create_engine"
    /\ DB_ENGINE' = "engine"
    /\ DB_SESSION' = "sessionmaker"
    /\ rb' = "create_monitor"
    /\ UNCHANGED <<storeVars, syncVars, auxVars, cfgVars, exitStatus, handlers,
                   pendingSignals, sigCount, MONITOR_COROUTINE, disposeCount,
                   loop, stoppedBy, tasks, cogs, readyCount, cmdCount, logged>>

\* bot.py:286
RunBot_CreateMonitor ==
    /\ rb = "create_monitor"
    /\ MONITOR_COROUTINE' = "created"
    /\ rb' = "start_loop"
    /\ UNCHANGED <<storeVars, syncVars, auxVars, cfgVars, exitStatus, handlers,
                   pendingSignals, sigCount, DB_ENGINE, DB_SESSION,
                   disposeCount, loop, stoppedBy, tasks, cogs, readyCount,
                   cmdCount, logged>>

\* bot.py:288-290: the bot task is created and the loop runs.
RunBot_RunForever ==
    /\ rb = "start_loop"
    /\ tasks' = [tasks EXCEPT ![<<"bot", 1>>] = NewTask("start")]
    /\ loop' = "running"
    /\ rb' = "run_forever"
    /\ UNCHANGED <<storeVars, syncVars, auxVars, cfgVars, exitStatus, handlers,
                   pendingSignals, sigCount, DB_ENGINE, DB_SESSION,
                   MONITOR_COROUTINE, disposeCount, stoppedBy, cogs,
                   readyCount, cmdCount, logged>>

\* bot.py:291-293: run_forever returned because the loop was stopped.
RunBot_Close ==
    /\ rb = "run_forever"
    /\ loop = "stopped"
    /\ loop' = "closed"
    /\ rb' = "done"
    /\ UNCHANGED <<storeVars, syncVars, auxVars, cfgVars, exitStatus, handlers,
                   pendingSignals, sigCount, DB_ENGINE, DB_SESSION,
                   MONITOR_COROUTINE, disposeCount, stoppedBy, tasks, cogs,
                   readyCount, cmdCount, logged>>

\* ------------------------------------------------------------------ signals
\* A signal arrives while the loop's handler is installed (bot.py:259): the
\* loop latches it and runs the registered callback on a later iteration.
Signal_Async(sig) ==
    /\ handlers[sig] = "loop_handler"
    /\ rb # "done"
    /\ sigCount < MaxSignals
    /\ sigCount' = sigCount + 1
    /\ pendingSignals' = pendingSignals + 1
    /\ UNCHANGED <<storeVars, syncVars, auxVars, cfgVars, rb, exitStatus,
                   handlers, DB_ENGINE, DB_SESSION, MONITOR_COROUTINE,
                   disposeCount, loop, stoppedBy, tasks, cogs, readyCount,
                   cmdCount, logged>>

\* bot.py:260: the callback, asyncio.create_task(__shutdown(sig, loop)).
Loop_SignalCallback ==
    /\ loop = "running"
    /\ pendingSignals > 0
    /\ tasks' = [tasks EXCEPT ![<<"shutdown", Cardinality(ShutdownTasks) + 1>>] = NewTask("start")]
    /\ pendingSignals' = pendingSignals - 1
    /\ UNCHANGED <<storeVars, syncVars, auxVars, cfgVars, rb, exitStatus,
                   handlers, sigCount, DB_ENGINE, DB_SESSION,
                   MONITOR_COROUTINE, disposeCount, loop, stoppedBy, cogs,
                   readyCount, cmdCount, logged>>

\* bot.py:243-247: __dirty_shutdown, run by the interpreter when the signal
\* arrives: loop.create_task(__shutdown(signal.Signals(sig_num), loop)).
dirty_shutdown(sig) ==
    /\ handlers[sig] = "dirty_shutdown"
    /\ rb # "done"
    /\ sigCount < MaxSignals
    /\ sigCount' = sigCount + 1
    /\ tasks' = [tasks EXCEPT ![<<"shutdown", Cardinality(ShutdownTasks) + 1>>] = NewTask("start")]
    /\ UNCHANGED <<storeVars, syncVars, auxVars, cfgVars, rb, exitStatus,
                   handlers, pendingSignals, DB_ENGINE, DB_SESSION,
                   MONITOR_COROUTINE, disposeCount, loop, stoppedBy, cogs,
                   readyCount, cmdCount, logged>>

procVars == <<cfgVars, rb, exitStatus, handlers, pendingSignals, sigCount>>

\* ------------------------------------------------------------------ the chat client's tasks
\* The bot task (bot.py:281-283) receives the gateway's READY and dispatches
\* on_ready as a task of its own.
Bot_ReadyWithin(t, budget) ==
    /\ Kind(t) = "bot"
    /\ Runnable(t)
    /\ readyCount + cmdCount < budget
    /\ readyCount' = readyCount + 1
    /\ tasks' = [tasks EXCEPT ![t].pc = "connected",
                               ![<<"on_ready", readyCount + 1>>] = NewTask("add_cog")]
    /\ UNCHANGED <<storeVars, syncVars, auxVars, procVars, DB_ENGINE, DB_SESSION,
                   MONITOR_COROUTINE, disposeCount, loop, stoppedBy, cogs,
                   cmdCount, logged>>

Bot_Ready(t) == Bot_ReadyWithin(t, MaxDispatch)

\* The bot task dispatches an inbound command or interaction as a task.
Bot_DispatchWithin(t, budget) ==
    /\ Kind(t) = "bot"
    /\ Runnable(t)
    /\ readyCount + cmdCount < budget
    /\ cmdCount' = cmdCount + 1
    /\ tasks' = [tasks EXCEPT ![<<"command", cmdCount + 1>>] = NewTask("running")]
    /\ UNCHANGED <<storeVars, syncVars, auxVars, procVars, DB_ENGINE, DB_SESSION,
                   MONITOR_COROUTINE, disposeCount, loop, stoppedBy, cogs,
                   readyCount, logged>>

Bot_Dispatch(t) == Bot_DispatchWithin(t, MaxDispatch)

\* Mutant of OnReady_AddCog: add_cog called with override=True, which replaces
\* a registered cog of the same name instead of refusing.
OnReady_AddCog_Override(t) ==
    /\ Kind(t) = "on_ready"
    /\ tasks[t].pc = "add_cog"
    /\ Runnable(t)
    /\ tasks' = [tasks EXCEPT ![t].pc = "start_monitor"]
    /\ cogs' = cogs \cup {"searches"}
    /\ UNCHANGED <<storeVars, syncVars, auxVars, procVars, DB_ENGINE, DB_SESSION,
                   MONITOR_COROUTINE, disposeCount, loop, stoppedBy,
                   readyCount, cmdCount, logged>>

\* bot.py:49-51: on_ready registers the command group. Registering a cog whose
\* name is registered already is refused by the chat library with an exception.
OnReady_AddCog(t) ==
    /\ Kind(t) = "on_ready"
    /\ tasks[t].pc = "add_cog"
    /\ Runnable(t)
    /\ IF "searches" \in cogs
       THEN /\ tasks' = [tasks EXCEPT ![t].state = "failed", ![t].pc = "done"]
            /\ cogs' = cogs
       ELSE /\ tasks' = [tasks EXCEPT ![t].pc = "start_monitor"]
            /\ cogs' = cogs \cup {"searches"}
    /\ UNCHANGED <<storeVars, syncVars, auxVars, procVars, DB_ENGINE, DB_SESSION,
                   MONITOR_COROUTINE, disposeCount, loop, stoppedBy,
                   readyCount, cmdCount, logged>>

\* Mutant of OnReady_StartMonitor: on_ready without its "is not None" test,
\* where create_task(None) raises TypeError and ends the task.
OnReady_StartMonitor_NoTest(t) ==
    /\ Kind(t) = "on_ready"
    /\ tasks[t].pc = "start_monitor"
    /\ Runnable(t)
    /\ IF MONITOR_COROUTINE # "None"
       THEN tasks' = [tasks EXCEPT ![t].state = "finished", ![t].pc = "done",
                                   ![<<"monitor", t[2]>>] = NewTask("start")]
       ELSE tasks' = [tasks EXCEPT ![t].state = "failed", ![t].pc = "done"]
    /\ UNCHANGED <<storeVars, syncVars, auxVars, procVars, DB_ENGINE, DB_SESSION,
                   MONITOR_COROUTINE, disposeCount, loop, stoppedBy, cogs,
                   readyCount, cmdCount, logged>>

\* bot.py:53-62: the monitor task is created from MONITOR_COROUTINE, or the
\* critical line is logged.
OnReady_StartMonitor(t) ==
    /\ Kind(t) = "on_ready"
    /\ tasks[t].pc = "start_monitor"
    /\ Runnable(t)
    /\ IF MONITOR_COROUTINE # "None"
       THEN /\ tasks' = [tasks EXCEPT ![t].state = "finished", ![t].pc = "done",
                                       ![<<"monitor", t[2]>>] = NewTask("start")]
            /\ logged' = logged
       ELSE /\ tasks' = [tasks EXCEPT ![t].state = "finished", ![t].pc = "done"]
            /\ logged' = logged \cup {"critical_monitor_not_initialized"}
    /\ UNCHANGED <<storeVars, syncVars, auxVars, procVars, DB_ENGINE, DB_SESSION,
                   MONITOR_COROUTINE, disposeCount, loop, stoppedBy, cogs,
                   readyCount, cmdCount>>

\* The monitor task's first step enters the coroutine saved at bot.py:286; a
\* coroutine that has been entered before cannot be entered again.
Monitor_Start(t) ==
    /\ Kind(t) = "monitor"
    /\ tasks[t].pc = "start"
    /\ Runnable(t)
    /\ IF MONITOR_COROUTINE = "created"
       THEN /\ tasks' = [tasks EXCEPT ![t].pc = "polling"]
            /\ MONITOR_COROUTINE' = "running"
       ELSE /\ tasks' = [tasks EXCEPT ![t].state = "failed", ![t].pc = "done"]
            /\ MONITOR_COROUTINE' = MONITOR_COROUTINE
    /\ UNCHANGED <<storeVars, syncVars, auxVars, procVars, DB_ENGINE, DB_SESSION,
                   disposeCount, loop, stoppedBy, cogs, readyCount, cmdCount,
                   logged>>

\* A command handler returns.
Command_Return(t) ==
    /\ Kind(t) = "command"
    /\ Runnable(t)
    /\ tasks' = [tasks EXCEPT ![t].state = "finished", ![t].pc = "done"]
    /\ UNCHANGED <<storeVars, syncVars, auxVars, procVars, DB_ENGINE, DB_SESSION,
                   MONITOR_COROUTINE, disposeCount, loop, stoppedBy, cogs,
                   readyCount, cmdCount, logged>>

\* Mutant of Task_Raise: the dispatched tasks supervised as a group by the bot
\* task, so that the exception of one child ends the bot task with it.
Task_Raise_Propagating(t) ==
    /\ Kind(t) \in {"bot", "command", "monitor"}
    /\ Runnable(t)
    /\ tasks' = [tasks EXCEPT ![t].state = "failed", ![t].pc = "done",
                             ![<<"bot", 1>>].state = "failed",
                             ![<<"bot", 1>>].pc = "done"]
    /\ UNCHANGED <<storeVars, syncVars, auxVars, procVars, DB_ENGINE, DB_SESSION,
                   MONITOR_COROUTINE, disposeCount, loop, stoppedBy, cogs,
                   readyCount, cmdCount, logged>>

\* An exception escapes a task that nobody cancelled: a failed login or lost
\* connection in the bot task, a store or chat failure in a command, a feed
\* failure in the monitor. Nothing in bot.py catches it: the task ends.
Task_Raise(t) ==
    /\ Kind(t) \in {"bot", "command", "monitor"}
    /\ Runnable(t)
    /\ tasks' = [tasks EXCEPT ![t].state = "failed", ![t].pc = "done"]
    /\ UNCHANGED <<storeVars, syncVars, auxVars, procVars, DB_ENGINE, DB_SESSION,
                   MONITOR_COROUTINE, disposeCount, loop, stoppedBy, cogs,
                   readyCount, cmdCount, logged>>

\* A task cancelled by bot.py:234 is stepped with CancelledError thrown in at
\* its suspension point (which takes the cancellation request off the task):
\* it settles cancelled, or its clean-up raises another exception and it
\* settles failed.
Task_Cancelled(t) ==
    /\ Kind(t) # "shutdown"
    /\ loop = "running"
    /\ tasks[t].state = "pending"
    /\ tasks[t].must_cancel
    /\ \E outcome \in {"cancelled", "failed"} :
          tasks' = [tasks EXCEPT ![t].state = outcome, ![t].pc = "done",
                                 ![t].must_cancel = FALSE]
    /\ UNCHANGED <<storeVars, syncVars, auxVars, procVars, DB_ENGINE, DB_SESSION,
                   MONITOR_COROUTINE, disposeCount, loop, stoppedBy, cogs,
                   readyCount, cmdCount, logged>>

\* ------------------------------------------------------------------ __shutdown
\* Mutant of OtherTasks: the comprehension without its "is not current_task()"
\* filter, so that the shutdown task cancels and gathers itself as well.
OtherTasks_WithSelf(self) == all_tasks

\* bot.py:230: every task of the loop that is not done, but the current one.
OtherTasks(self) == {t \in all_tasks : t # self}

\* Mutant of GatherOutcome: the gather without return_exceptions=True, which
\* raises the first exception or cancellation one of its awaitables ends with.
GatherOutcome_Raising(children) ==
    IF \E c \in children : tasks[c].state \in {"failed", "cancelled"}
    THEN "raises"
    ELSE IF \A c \in children : Settled(c) THEN "results" ELSE "pending"

\* bot.py:237: asyncio.gather(*tasks, return_exceptions=True) delivers the list
\* of results and exceptions once every awaitable has settled; it never raises
\* one of them.
GatherOutcome(children) ==
    IF \A c \in children : Settled(c) THEN "results" ELSE "pending"

\* bot.py:222-227: the first step of a __shutdown task runs to the await of
\* DB_ENGINE.dispose().
Shutdown_Dispose(t) ==
    /\ Kind(t) = "shutdown"
    /\ tasks[t].pc = "start"
    /\ Runnable(t)
    /\ disposeCount' = IF DB_ENGINE # "None" THEN disposeCount + 1 ELSE disposeCount
    /\ tasks' = [tasks EXCEPT ![t].pc = "dispose"]
    /\ UNCHANGED <<storeVars, syncVars, auxVars, procVars, DB_ENGINE, DB_SESSION,
                   MONITOR_COROUTINE, loop, stoppedBy, cogs, readyCount,
                   cmdCount, logged>>

\* bot.py:229-240: resumed from dispose, the task collects the other tasks,
\* cancels each and awaits the gather. A gather of nothing is done at once:
\* the await does not suspend and loop.stop() follows in the same step.
Shutdown_CancelAll(t) ==
    /\ Kind(t) = "shutdown"
    /\ tasks[t].pc = "dispose"
    /\ Runnable(t)
    /\ LET others == OtherTasks(t)
           cancelled == [i \in TaskIds |->
                 IF i \in others
                 THEN [tasks[i] EXCEPT !.must_cancel = TRUE]
                 ELSE tasks[i]]
       IN  /\ tasks' = [cancelled EXCEPT ![t] =
                 IF others = {}
                 THEN [cancelled[t] EXCEPT !.pc = "done", !.state = "finished"]
                 ELSE [cancelled[t] EXCEPT !.pc = "gather", !.children = others]]
           /\ loop' = IF others = {} THEN "stopped" ELSE loop
           /\ stoppedBy' = IF others = {} THEN t ELSE stoppedBy
    /\ UNCHANGED <<storeVars, syncVars, auxVars, procVars, DB_ENGINE, DB_SESSION,
                   MONITOR_COROUTINE, disposeCount, cogs, readyCount,
                   cmdCount, logged>>

\* bot.py:237-240: the gather has delivered; the results are dropped and the
\* loop is stopped. (An exception raised by the gather would end the task
\* before loop.stop().)
Shutdown_Stop(t) ==
    /\ Kind(t) = "shutdown"
    /\ tasks[t].pc = "gather"
    /\ Runnable(t)
    /\ GatherOutcome(tasks[t].children) # "pending"
    /\ IF GatherOutcome(tasks[t].children) = "results"
       THEN /\ tasks' = [tasks EXCEPT ![t].state = "finished", ![t].pc = "done"]
            /\ loop' = "stopped"
            /\ stoppedBy' = t
       ELSE /\ tasks' = [tasks EXCEPT ![t].state = "failed", ![t].pc = "done"]
            /\ UNCHANGED <<loop, stoppedBy>>
    /\ UNCHANGED <<storeVars, syncVars, auxVars, procVars, DB_ENGINE, DB_SESSION,
                   MONITOR_COROUTINE, disposeCount, cogs, readyCount,
                   cmdCount, logged>>

\* A __shutdown task cancelled by another __shutdown task (bot.py:234). Before
\* its first step or at the await of dispose it ends at once; at the gather
\* the cancellation is passed on to the gathered tasks and the task ends when
\* all of them have settled. It never reaches loop.stop().
Shutdown_Cancelled(t) ==
    /\ Kind(t) = "shutdown"
    /\ loop = "running"
    /\ tasks[t].state = "pending"
    /\ tasks[t].must_cancel
    /\ tasks[t].pc = "gather" => \A c \in tasks[t].children : Settled(c)
    /\ tasks' = [tasks EXCEPT ![t].state = "cancelled", ![t].pc = "done",
                             ![t].must_cancel = FALSE]
    /\ UNCHANGED <<storeVars, syncVars, auxVars, procVars, DB_ENGINE, DB_SESSION,
                   MONITOR_COROUTINE, disposeCount, loop, stoppedBy, cogs,
                   readyCount, cmdCount, logged>>

\* ------------------------------------------------------------------ the lifecycle specification
StoreIdle ==
    /\ criteria = {}
    /\ keywords = << >>
    /\ nextId = [criterion |-> 1, keyword |-> 1]
    /\ cmds = << >>

SyncIdle ==
    /\ syncs = << >>
    /\ treeSyncs = << >>
    /\ guildCopies = << >>

\* common.py:7-8: the module's globals as the import leaves them; nothing
\* has been called.
CommonIdle ==
    /\ LOG_LEVEL = "None"
    /\ ENGINE = "None"
    /\ created = 0
    /\ commonLog = << >>
    /\ calls = << >>

FeedIdle ==
    /\ notified = {}
    /\ cycles = << >>

Init == LifeInit /\ StoreIdle /\ SyncIdle /\ CommonIdle /\ FeedIdle

TaskStep(t) ==
    \/ Bot_Ready(t)
    \/ Bot_Dispatch(t)
    \/ OnReady_AddCog(t)
    \/ OnReady_StartMonitor(t)
    \/ Monitor_Start(t)
    \/ Command_Return(t)
    \/ Task_Raise(t)
    \/ Task_Cancelled(t)
    \/ Shutdown_Dispose(t)
    \/ Shutdown_CancelAll(t)
    \/ Shutdown_Stop(t)
    \/ Shutdown_Cancelled(t)

Next ==
    \/ RunBot_RegisterAsync
    \/ RunBot_Exit
    \/ RunBot_DirtyFallback
    \/ RunBot_CreateEngine
    \/ RunBot_CreateMonitor
    \/ RunBot_RunForever
    \/ RunBot_Close
    \/ \E sig \in Signals : Signal_Async(sig)
    \/ Loop_SignalCallback
    \/ \E sig \in Signals : dirty_shutdown(sig)
    \/ \E t \in TaskIds : TaskStep(t)

Spec == Init /\ [][Next]_vars

\* The steps the event loop owes a task once they are enabled: a __shutdown
\* task that can run on is stepped, and a cancelled task is stepped with the
\* cancellation and settles.
LoopOwes(t) ==
    \/ Shutdown_Dispose(t)
    \/ Shutdown_CancelAll(t)
    \/ Shutdown_Stop(t)
    \/ Shutdown_Cancelled(t)
    \/ Task_Cancelled(t)

\* The scheduling the process guarantees: run_bot runs on, the loop runs a
\* latched signal's callback and steps its tasks. Nothing obliges a signal to
\* arrive, the chat client to dispatch anything, or a task to end by itself.
FairSpec ==
    /\ Init
    /\ [][Next]_vars
    /\ WF_vars(RunBot_RegisterAsync \/ RunBot_Exit \/ RunBot_DirtyFallback
                  \/ RunBot_CreateEngine \/ RunBot_CreateMonitor
                  \/ RunBot_RunForever \/ RunBot_Close)
    /\ WF_vars(Loop_SignalCallback)
    /\ \A t \in TaskIds : WF_vars(LoopOwes(t))

\* ------------------------------------------------------------------ serving without signals
\* The chat client has just been started and no signal arrives. It was started
\* by run_bot (bot.py:278-290), or by a caller that runs the module's bot
\* without run_bot and so leaves the globals as bot.py:34-37 sets them.
ServeInit ==
    /\ \/ /\ asyncSupported = TRUE
          /\ rb = "run_forever"
          /\ handlers = [s \in Signals |-> "loop_handler"]
          /\ DB_ENGINE = "engine"
          /\ DB_SESSION = "sessionmaker"
          /\ MONITOR_COROUTINE = "created"
       \/ /\ asyncSupported = FALSE
          /\ rb = "not_called"
          /\ handlers = [s \in Signals |-> "default"]
          /\ DB_ENGINE = "None"
          /\ DB_SESSION = "None"
          /\ MONITOR_COROUTINE = "None"
    /\ allow_dirty_shutdown = FALSE
    /\ exitStatus = -1
    /\ pendingSignals = 0
    /\ sigCount = 0
    /\ disposeCount = 0
    /\ loop = "running"
    /\ stoppedBy = NoTask
    /\ tasks = [t \in TaskIds |->
                  IF t = <<"bot", 1>> THEN NewTask("start") ELSE AbsentTask]
    /\ cogs = {}
    /\ readyCount = 0
    /\ cmdCount = 0
    /\ logged = {}
    /\ StoreIdle /\ SyncIdle /\ CommonIdle /\ FeedIdle

Serve_Ready(t) == Bot_ReadyWithin(t, MaxServe)

Serve_Dispatch(t) == Bot_DispatchWithin(t, MaxServe)

ServeStep(t) ==
    \/ Serve_Ready(t)
    \/ Serve_Dispatch(t)
    \/ OnReady_AddCog(t)
    \/ OnReady_StartMonitor(t)
    \/ Monitor_Start(t)
    \/ Command_Return(t)
    \/ Task_Raise(t)

ServeNext == \E t \in TaskIds : ServeStep(t)

SpecServe == ServeInit /\ [][ServeNext]_vars

\* ------------------------------------------------------------------ the store
\* The listing kinds a criterion watches for (bot.py:125: want to buy, want
\* to sell).
SubmissionType == {"WTB", "WTS"}

\* The characters Python's str.split() takes for whitespace, as far as the
\* inputs below use them.
Whitespace == {" "}

\* The slash-command inputs of /searches add that are explored: keywords is a
\* string, written as its sequence of characters. "f B" has two tokens of
\* different case, "a  a" a repeated token after a run of two spaces, " a" a
\* leading space; all_required defaults to TRUE and min_transactions to 5
\* (bot.py:135-136).
AddInputs ==
    { [submission_type |-> "WTB", keywords |-> <<"f", " ", "B">>,
       all_required |-> TRUE, min_transactions |-> 5],
      [submission_type |-> "WTS", keywords |-> <<"a", " ", " ", "a">>,
       all_required |-> FALSE, min_transactions |-> 1],
      [submission_type |-> "WTS", keywords |-> <<" ", "a">>,
       all_required |-> TRUE, min_transactions |-> 1] }

\* The search_id inputs of /searches delete that are explored (Range[int, 0],
\* bot.py:191).
SearchIds == 0..MaxCmds

RECURSIVE SplitFrom(_, _, _)
\* str.split() scanning value from position i with the token cur under way:
\* a whitespace character ends a token under way and is dropped otherwise.
SplitFrom(value, i, cur) ==
    IF i > Len(value)
    THEN IF cur = << >> THEN << >> ELSE <<cur>>
    ELSE IF value[i] \in Whitespace
         THEN IF cur = << >>
              THEN SplitFrom(value, i + 1, << >>)
              ELSE <<cur>> \o SplitFrom(value, i + 1, << >>)
         ELSE SplitFrom(value, i + 1, Append(cur, value[i]))

RECURSIVE SplitAtEach(_, _, _)
SplitAtEach(value, i, cur) ==
    IF i > Len(value)
    THEN <<cur>>
    ELSE IF value[i] \in Whitespace
         THEN <<cur>> \o SplitAtEach(value, i + 1, << >>)
         ELSE SplitAtEach(value, i + 1, Append(cur, value[i]))

\* Mutant of split: value.split(" "), which cuts at every single space and
\* keeps the empty strings between, before and after them.
split_AtEachSpace(value) == SplitAtEach(value, 1, << >>)

\* bot.py:121: value.split()
split(value) == SplitFrom(value, 1, << >>)

\* bot.py:117-121: one Keyword per token, holding the token as it is.
transform(value) == [i \in 1..Len(split(value)) |-> [content |-> split(value)[i]]]

\* The identities of the persisted criteria.
CriterionIds == {cr.id : cr \in criteria}

\* The keyword rows a criterion owns, in insertion order.
KeywordsOf(cid) == SelectSeq(keywords, LAMBDA k : k.criterion_id = cid)

\* The rendering of a criterion used in replies: its identity and fields with
\* the contents of its keywords.
Render(cr, kws) ==
    [id |-> cr.id, submission_type |-> cr.submission_type,
     all_required |-> cr.all_required, min_transactions |-> cr.min_transactions,
     keywords |-> [i \in 1..Len(kws) |-> kws[i].content]]

\* The keyword rows that go with a criterion when the session deletes it: the
\* relationship removes a criterion's keywords together with their owner.
CascadeOf(cid) ==
    {keywords[i].id : i \in {j \in 1..Len(keywords) : keywords[j].criterion_id = cid}}

\* A chat reply: its text, the identity it names and the renderings it
\* carries.
Reply(text, id, rendered) == [text |-> text, id |-> id, rendered |-> rendered]

NoReply == Reply("", 0, {})

NewCmd(kind, args) ==
    [kind |-> kind, args |-> args, pc |-> "send_message", state |-> "pending",
     reply |-> NoReply, session |-> "none", selected |-> "unset",
     criterion |-> 0, listing |-> {}, deleted |-> {}, commits |-> 0]

CmdIds == 1..MaxCmds

Awaiting(c, kind, pc) ==
    /\ c \in DOMAIN cmds
    /\ cmds[c].kind = kind
    /\ cmds[c].state = "pending"
    /\ cmds[c].pc = pc

\* ------------------------------------------------------------------ /searches add
\* bot.py:130-147: the interaction arrives with its transformed inputs and the
\* handler runs to the await of send_message.
add_Invoke(input) ==
    /\ Len(cmds) < MaxCmds
    /\ cmds' = Append(cmds, NewCmd("add",
                   [submission_type |-> input.submission_type,
                    value |-> input.keywords,
                    keywords |-> transform(input.keywords),
                    all_required |-> input.all_required,
                    min_transactions |-> input.min_transactions]))
    /\ UNCHANGED <<lifeVars, syncVars, auxVars, criteria, keywords, nextId>>

\* Mutant of add_SendMessage: the handler answers with the confirmation at
\* once and persists afterwards.
add_SendMessage_Optimistic(c) ==
    /\ Awaiting(c, "add", "send_message")
    /\ cmds' = [cmds EXCEPT ![c].reply = Reply("Created!", 0, {}), ![c].session = "open",
                            ![c].pc = "commit"]
    /\ UNCHANGED <<lifeVars, syncVars, auxVars, criteria, keywords, nextId>>

\* bot.py:147-158: the placeholder is out; the session is opened, the
\* criterion is built and added, and the handler awaits the commit.
add_SendMessage(c) ==
    /\ Awaiting(c, "add", "send_message")
    /\ cmds' = [cmds EXCEPT ![c].reply = Reply("Creating...", 0, {}), ![c].session = "open",
                            ![c].pc = "commit"]
    /\ UNCHANGED <<lifeVars, syncVars, auxVars, criteria, keywords, nextId>>

\* Mutant of add_Commit: the criterion is committed by itself and its keywords
\* are left for a later transaction.
add_Commit_CriterionFirst(c) ==
    /\ Awaiting(c, "add", "commit")
    /\ criteria' = criteria \cup
          {[id |-> nextId.criterion,
            submission_type |-> cmds[c].args.submission_type,
            all_required |-> cmds[c].args.all_required,
            min_transactions |-> cmds[c].args.min_transactions]}
    /\ keywords' = keywords
    /\ nextId' = [nextId EXCEPT !.criterion = @ + 1]
    /\ cmds' = [cmds EXCEPT ![c].criterion = nextId.criterion, ![c].pc = "edit",
                            ![c].commits = @ + 1]
    /\ UNCHANGED <<lifeVars, syncVars, auxVars>>

\* bot.py:158: the commit inserts the criterion row and its keyword rows in
\* one transaction; the store gives each row its identity.
add_Commit(c) ==
    /\ Awaiting(c, "add", "commit")
    /\ LET a == cmds[c].args
           cid == nextId.criterion
           rows == [i \in 1..Len(a.keywords) |->
                       [id |-> nextId.keyword + i - 1, criterion_id |-> cid,
                        content |-> a.keywords[i].content]]
       IN  /\ criteria' = criteria \cup
                 {[id |-> cid, submission_type |-> a.submission_type,
                   all_required |-> a.all_required,
                   min_transactions |-> a.min_transactions]}
           /\ keywords' = keywords \o rows
           /\ nextId' = [criterion |-> cid + 1,
                         keyword |-> nextId.keyword + Len(rows)]
           /\ cmds' = [cmds EXCEPT ![c].criterion = cid, ![c].pc = "edit",
                                   ![c].commits = @ + 1]
    /\ UNCHANGED <<lifeVars, syncVars, auxVars>>

\* bot.py:160: the reply is edited inside the session block, which is then
\* left.
add_Edit(c) ==
    /\ Awaiting(c, "add", "edit")
    /\ cmds' = [cmds EXCEPT
          ![c].reply = Reply("Created!", 0,
                         {Render([id |-> cmds[c].criterion,
                                  submission_type |-> cmds[c].args.submission_type,
                                  all_required |-> cmds[c].args.all_required,
                                  min_transactions |-> cmds[c].args.min_transactions],
                                 cmds[c].args.keywords)}),
          ![c].session = "closed", ![c].pc = "done", ![c].state = "finished"]
    /\ UNCHANGED <<lifeVars, syncVars, auxVars, criteria, keywords, nextId>>

\* ------------------------------------------------------------------ /searches list
\* bot.py:163-171
list_Invoke ==
    /\ Len(cmds) < MaxCmds
    /\ cmds' = Append(cmds, NewCmd("list", "none"))
    /\ UNCHANGED <<lifeVars, syncVars, auxVars, criteria, keywords, nextId>>

\* bot.py:171-181: the placeholder is out; the session is opened and the
\* handler awaits the select of every criterion with its keywords.
list_SendMessage(c) ==
    /\ Awaiting(c, "list", "send_message")
    /\ cmds' = [cmds EXCEPT ![c].reply = Reply("Please wait...", 0, {}), ![c].session = "open",
                            ![c].pc = "scalars"]
    /\ UNCHANGED <<lifeVars, syncVars, auxVars, criteria, keywords, nextId>>

\* bot.py:177-185: the select has delivered; the handler awaits the edit that
\* carries the rendering.
list_Scalars(c) ==
    /\ Awaiting(c, "list", "scalars")
    /\ cmds' = [cmds EXCEPT ![c].selected = "rows",
                            ![c].listing = {Render(cr, KeywordsOf(cr.id)) : cr \in criteria},
                            ![c].pc = "edit"]
    /\ UNCHANGED <<lifeVars, syncVars, auxVars, criteria, keywords, nextId>>

\* bot.py:183-185
list_Edit(c) ==
    /\ Awaiting(c, "list", "edit")
    /\ cmds' = [cmds EXCEPT ![c].reply = Reply("Search criteria:", 0, cmds[c].listing),
                            ![c].session = "closed", ![c].pc = "done",
                            ![c].state = "finished"]
    /\ UNCHANGED <<lifeVars, syncVars, auxVars, criteria, keywords, nextId>>

\* ------------------------------------------------------------------ /searches delete
\* bot.py:191-199
delete_Invoke(search_id) ==
    /\ Len(cmds) < MaxCmds
    /\ cmds' = Append(cmds, NewCmd("delete", [search_id |-> search_id]))
    /\ UNCHANGED <<lifeVars, syncVars, auxVars, criteria, keywords, nextId>>

\* bot.py:199-205: the placeholder is out; the session is opened and the
\* handler awaits the select by identity.
delete_SendMessage(c) ==
    /\ Awaiting(c, "delete", "send_message")
    /\ cmds' = [cmds EXCEPT ![c].reply = Reply("Please wait...", 0, {}), ![c].session = "open",
                            ![c].pc = "scalar"]
    /\ UNCHANGED <<lifeVars, syncVars, auxVars, criteria, keywords, nextId>>

\* Mutant of delete_Scalar: the handler without its "if criterion is None"
\* branch, which goes on to the delete and the commit whatever the select
\* delivered.
delete_Scalar_NoNoneCheck(c) ==
    /\ Awaiting(c, "delete", "scalar")
    /\ cmds' = [cmds EXCEPT
          ![c].selected = IF cmds[c].args.search_id \in CriterionIds
                          THEN "row" ELSE "None",
          ![c].criterion = cmds[c].args.search_id,
          ![c].pc = "delete"]
    /\ UNCHANGED <<lifeVars, syncVars, auxVars, criteria, keywords, nextId>>

\* bot.py:203-213: the select has delivered the criterion or None. On None the
\* handler awaits the edit to the not-found message; otherwise it awaits
\* session.delete.
delete_Scalar(c) ==
    /\ Awaiting(c, "delete", "scalar")
    /\ cmds' = [cmds EXCEPT
          ![c].selected = IF cmds[c].args.search_id \in CriterionIds
                          THEN "row" ELSE "None",
          ![c].criterion = IF cmds[c].args.search_id \in CriterionIds
                           THEN cmds[c].args.search_id ELSE 0,
          ![c].pc = IF cmds[c].args.search_id \in CriterionIds
                    THEN "delete" ELSE "edit_not_found"]
    /\ UNCHANGED <<lifeVars, syncVars, auxVars, criteria, keywords, nextId>>

\* bot.py:207-211: the not-found message is out; return leaves the session
\* block.
delete_NotFound(c) ==
    /\ Awaiting(c, "delete", "edit_not_found")
    /\ cmds' = [cmds EXCEPT
          ![c].reply = Reply("Search criteria not found for id", cmds[c].args.search_id, {}),
          ![c].session = "closed", ![c].pc = "done", ![c].state = "finished"]
    /\ UNCHANGED <<lifeVars, syncVars, auxVars, criteria, keywords, nextId>>

\* Mutant of delete_Delete: the keywords that go with the criterion are chosen
\* by their content instead of their owner.
delete_Delete_ByContent(c) ==
    /\ Awaiting(c, "delete", "delete")
    /\ cmds' = [cmds EXCEPT
          ![c].deleted =
              {keywords[i].id : i \in {j \in 1..Len(keywords) :
                  \E k \in 1..Len(keywords) :
                      /\ keywords[k].criterion_id = cmds[c].criterion
                      /\ keywords[k].content = keywords[j].content}},
          ![c].pc = "commit"]
    /\ UNCHANGED <<lifeVars, syncVars, auxVars, criteria, keywords, nextId>>

\* Mutant of delete_Delete: the criterion row is deleted by a statement of its
\* own instead of session.delete(criterion), so that nothing goes with it.
delete_Delete_RowOnly(c) ==
    /\ Awaiting(c, "delete", "delete")
    /\ cmds' = [cmds EXCEPT ![c].deleted = {}, ![c].pc = "commit"]
    /\ UNCHANGED <<lifeVars, syncVars, auxVars, criteria, keywords, nextId>>

\* bot.py:213-214: session.delete(criterion) has marked the criterion, and
\* what goes with it, as deleted; the handler awaits the commit.
delete_Delete(c) ==
    /\ Awaiting(c, "delete", "delete")
    /\ cmds' = [cmds EXCEPT ![c].deleted = CascadeOf(cmds[c].criterion),
                            ![c].pc = "commit"]
    /\ UNCHANGED <<lifeVars, syncVars, auxVars, criteria, keywords, nextId>>

\* bot.py:214-216: the commit removes the marked rows; the session block is
\* left and the handler awaits the edit to the confirmation.
delete_Commit(c) ==
    /\ Awaiting(c, "delete", "commit")
    /\ criteria' = {cr \in criteria : cr.id # cmds[c].criterion}
    /\ keywords' = SelectSeq(keywords, LAMBDA k : k.id \notin cmds[c].deleted)
    /\ cmds' = [cmds EXCEPT ![c].commits = @ + 1, ![c].session = "closed",
                            ![c].pc = "edit_deleted"]
    /\ UNCHANGED <<lifeVars, syncVars, auxVars, nextId>>

\* bot.py:216
delete_Edit(c) ==
    /\ Awaiting(c, "delete", "edit_deleted")
    /\ cmds' = [cmds EXCEPT ![c].reply = Reply("Successfully deleted!", 0, {}),
                            ![c].pc = "done", ![c].state = "finished"]
    /\ UNCHANGED <<lifeVars, syncVars, auxVars, criteria, keywords, nextId>>

\* The call a handler awaits (a chat-platform call or a session operation)
\* raises. No handler catches anything: the session block is left, which
\* closes an open session and commits nothing, and the task ends.
Searches_Raise(c) ==
    /\ c \in DOMAIN cmds
    /\ cmds[c].state = "pending"
    /\ cmds' = [cmds EXCEPT
          ![c].state = "failed",
          ![c].session = IF cmds[c].session = "open" THEN "closed" ELSE @]
    /\ UNCHANGED <<lifeVars, syncVars, auxVars, criteria, keywords, nextId>>

\* __shutdown cancels the command's task (bot.py:234): CancelledError is thrown
\* in at the call the handler awaits. The session block is left as for any
\* other exception and the task ends cancelled.
Searches_Cancelled(c) ==
    /\ c \in DOMAIN cmds
    /\ cmds[c].state = "pending"
    /\ cmds' = [cmds EXCEPT
          ![c].state = "cancelled",
          ![c].session = IF cmds[c].session = "open" THEN "closed" ELSE @]
    /\ UNCHANGED <<lifeVars, syncVars, auxVars, criteria, keywords, nextId>>

SearchesStep(c) ==
    \/ add_SendMessage(c)
    \/ add_Commit(c)
    \/ add_Edit(c)
    \/ list_SendMessage(c)
    \/ list_Scalars(c)
    \/ list_Edit(c)
    \/ delete_SendMessage(c)
    \/ delete_Scalar(c)
    \/ delete_NotFound(c)
    \/ delete_Delete(c)
    \/ delete_Commit(c)
    \/ delete_Edit(c)
    \/ Searches_Raise(c)
    \/ Searches_Cancelled(c)

StoreNext ==
    \/ \E input \in AddInputs : add_Invoke(input)
    \/ list_Invoke
    \/ \E search_id \in SearchIds : delete_Invoke(search_id)
    \/ \E c \in CmdIds : SearchesStep(c)

\* The process while it serves commands (asynchronous signal handlers, the
\* loop running, the chat client connected, on_ready done, the monitor
\* polling), with an empty store and no interaction received yet.
Serving ==
    /\ asyncSupported = TRUE
    /\ allow_dirty_shutdown = FALSE
    /\ rb = "run_forever"
    /\ exitStatus = -1
    /\ handlers = [s \in Signals |-> "loop_handler"]
    /\ pendingSignals = 0
    /\ sigCount = 0
    /\ DB_ENGINE = "engine"
    /\ DB_SESSION = "sessionmaker"
    /\ MONITOR_COROUTINE = "running"
    /\ disposeCount = 0
    /\ loop = "running"
    /\ stoppedBy = NoTask
    /\ tasks = [t \in TaskIds |->
                  IF t = <<"bot", 1>> THEN [NewTask("connected") EXCEPT !.pc = "connected"]
                  ELSE IF t = <<"on_ready", 1>>
                       THEN [AbsentTask EXCEPT !.pc = "done", !.state = "finished"]
                  ELSE IF t = <<"monitor", 1>> THEN NewTask("polling")
                  ELSE AbsentTask]
    /\ cogs = {"searches"}
    /\ readyCount = 1
    /\ cmdCount = 0
    /\ logged = {}

StoreInit == Serving /\ StoreIdle /\ SyncIdle /\ CommonIdle /\ FeedIdle

SpecStore == StoreInit /\ [][StoreNext]_vars

\* ------------------------------------------------------------------ %sync
\* What follows "%sync" in the message: one of the two literals, nothing, or
\* another word.
SyncTargets == {"global", "here", "", "everywhere"}

\* ctx.guild: None in a direct message.
Guilds == {"None", "guild"}

\* bot.py:91. The grave accents that mark inline code in the replies of
\* sync_error are written as apostrophes: a TLA+ string cannot hold them.
usage_string == "Usage: '%sync <here|global>'"

SyncIds == 1..MaxSyncs

SyncAt(c, pc) ==
    /\ c \in DOMAIN syncs
    /\ syncs[c].state = "pending"
    /\ syncs[c].pc = pc

\* A %sync message arrives.
sync_Message(target, guild, owner) ==
    /\ Len(syncs) < MaxSyncs
    /\ syncs' = Append(syncs,
          [target |-> target, guild |-> guild, owner |-> owner,
           pc |-> "prepare", state |-> "pending", error |-> "none",
           sent |-> << >>, logged |-> {}])
    /\ UNCHANGED <<lifeVars, storeVars, auxVars, treeSyncs, guildCopies>>

\* bot.py:65-67: the command's check and the conversion of target to
\* Literal["global", "here"], done by the command framework before the body is
\* called: a failure goes to the command's error handler.
sync_Prepare(c) ==
    /\ SyncAt(c, "prepare")
    /\ syncs' = [syncs EXCEPT
          ![c].error = IF ~syncs[c].owner THEN "NotOwner"
                       ELSE IF syncs[c].target = "" THEN "MissingRequiredArgument"
                       ELSE IF syncs[c].target \notin {"global", "here"}
                            THEN "BadLiteralArgument"
                       ELSE "none",
          ![c].pc = IF syncs[c].owner /\ syncs[c].target \in {"global", "here"}
                    THEN "body" ELSE "sync_error"]
    /\ UNCHANGED <<lifeVars, storeVars, auxVars, treeSyncs, guildCopies>>

\* Mutant of sync: the "here" branch without its test of ctx.guild.
sync_NoGuildTest(c) ==
    /\ SyncAt(c, "body")
    /\ guildCopies' = IF syncs[c].target = "here"
                      THEN Append(guildCopies, [by |-> c, guild |-> syncs[c].guild])
                      ELSE guildCopies
    /\ treeSyncs' = Append(treeSyncs,
          [by |-> c, guild |-> IF syncs[c].target = "here" THEN syncs[c].guild ELSE "None"])
    /\ syncs' = [syncs EXCEPT ![c].pc = "tree_sync"]
    /\ UNCHANGED <<lifeVars, storeVars, auxVars>>

\* bot.py:68-79: the body up to its first await. "global" calls tree.sync();
\* "here" without a guild sends the refusal; "here" with a guild copies the
\* global commands to it and calls tree.sync(guild=ctx.guild).
sync(c) ==
    /\ SyncAt(c, "body")
    /\ IF syncs[c].target = "global"
       THEN /\ treeSyncs' = Append(treeSyncs, [by |-> c, guild |-> "None"])
            /\ guildCopies' = guildCopies
            /\ syncs' = [syncs EXCEPT ![c].pc = "tree_sync"]
       ELSE IF syncs[c].guild = "None"
            THEN /\ UNCHANGED <<treeSyncs, guildCopies>>
                 /\ syncs' = [syncs EXCEPT ![c].pc = "send_not_in_guild"]
            ELSE /\ guildCopies' = Append(guildCopies, [by |-> c, guild |-> syncs[c].guild])
                 /\ treeSyncs' = Append(treeSyncs, [by |-> c, guild |-> syncs[c].guild])
                 /\ syncs' = [syncs EXCEPT ![c].pc = "tree_sync"]
    /\ UNCHANGED <<lifeVars, storeVars, auxVars>>

\* bot.py:74-76: the refusal is out; the command returns.
sync_NotInGuild(c) ==
    /\ SyncAt(c, "send_not_in_guild")
    /\ syncs' = [syncs EXCEPT ![c].sent = Append(@, <<"Not in a guild context!">>),
                              ![c].pc = "done", ![c].state = "finished"]
    /\ UNCHANGED <<lifeVars, storeVars, auxVars, treeSyncs, guildCopies>>

\* bot.py:71-72, 79-82: tree.sync has delivered the synced commands; the count
\* is reported.
sync_Synced(c) ==
    /\ SyncAt(c, "tree_sync")
    /\ syncs' = [syncs EXCEPT ![c].pc = "send_synced"]
    /\ UNCHANGED <<lifeVars, storeVars, auxVars, treeSyncs, guildCopies>>

\* bot.py:72, 80-86: the report is out.
sync_Reported(c) ==
    /\ SyncAt(c, "send_synced")
    /\ syncs' = [syncs EXCEPT
          ![c].sent = Append(@, IF syncs[c].target = "global"
                                THEN <<"Synced N command(s) globally.">>
                                ELSE <<"Synced N command(s) to the current guild.">>),
          ![c].pc = "done", ![c].state = "finished"]
    /\ UNCHANGED <<lifeVars, storeVars, auxVars, treeSyncs, guildCopies>>

\* A call the body awaits (tree.sync, ctx.send) raises: the framework hands
\* the failure, wrapped, to the command's error handler.
sync_Raise(c) ==
    /\ c \in DOMAIN syncs
    /\ syncs[c].state = "pending"
    /\ syncs[c].pc \in {"tree_sync", "send_synced", "send_not_in_guild"}
    /\ syncs' = [syncs EXCEPT ![c].error = "CommandInvokeError", ![c].pc = "sync_error"]
    /\ UNCHANGED <<lifeVars, storeVars, auxVars, treeSyncs, guildCopies>>

\* Mutant of sync_error: an else branch that answers the user with the usage
\* string and returns instead of logging and raising.
sync_error_AnswersAll(c) ==
    /\ SyncAt(c, "sync_error")
    /\ syncs' = [syncs EXCEPT ![c].pc = "send_error"]
    /\ UNCHANGED <<lifeVars, storeVars, auxVars, treeSyncs, guildCopies>>

\* bot.py:89-103: a missing or a bad target is answered (the handler awaits
\* the send); any other error is logged at error level and raised again.
sync_error(c) ==
    /\ SyncAt(c, "sync_error")
    /\ syncs' = IF syncs[c].error \in {"MissingRequiredArgument", "BadLiteralArgument"}
                THEN [syncs EXCEPT ![c].pc = "send_error"]
                ELSE [syncs EXCEPT
                        ![c].logged = @ \cup {"ERROR Unhandled exception for 'sync' command!"},
                        ![c].pc = "done", ![c].state = "raised"]
    /\ UNCHANGED <<lifeVars, storeVars, auxVars, treeSyncs, guildCopies>>

\* bot.py:94-100: the answer of the error handler is out.
sync_error_Sent(c) ==
    /\ SyncAt(c, "send_error")
    /\ syncs' = [syncs EXCEPT
          ![c].sent = Append(@,
              IF syncs[c].error = "MissingRequiredArgument"
              THEN <<"A value for 'target' is missing!", usage_string>>
              ELSE <<"'target' must be either 'here' or 'global'!", usage_string>>),
          ![c].pc = "done", ![c].state = "finished"]
    /\ UNCHANGED <<lifeVars, storeVars, auxVars, treeSyncs, guildCopies>>

SyncStep(c) ==
    \/ sync_Prepare(c)
    \/ sync(c)
    \/ sync_NotInGuild(c)
    \/ sync_Synced(c)
    \/ sync_Reported(c)
    \/ sync_Raise(c)
    \/ sync_error(c)
    \/ sync_error_Sent(c)

SyncNext ==
    \/ \E target \in SyncTargets, guild \in Guilds, owner \in BOOLEAN :
          sync_Message(target, guild, owner)
    \/ \E c \in SyncIds : SyncStep(c)

SpecSync == StoreInit /\ [][SyncNext]_vars

\* ------------------------------------------------------------------ common.py
\* The package_name arguments explored: None (written "None"), the empty
\* string, and two names.
PackageNames == {"None", "", "wemb.common", "wemb.bot"}

\* The levels given to set_log_level: a level name the logging module knows
\* and one it does not.
Levels == {"INFO", "verbose"}

\* logging.Logger.setLevel as common.py:30 calls it: None is no level
\* (TypeError), a string that names no level is refused (ValueError).
setLevel(level) ==
    IF level = "None" THEN "TypeError"
    ELSE IF level = "INFO" THEN "none"
    ELSE "ValueError"

\* logging.getLogger as common.py:29 calls it: the empty name gives the root
\* logger.
getLogger(name) == IF name = "" THEN "root" ELSE name

\* common.py:17-32: what a call of get_logger does in the current state: the
\* exception it raises ("none" when it returns) and the logger it returns.
get_logger(package_name) ==
    IF package_name = "None"
    THEN [raises |-> "ValueError", value |-> "None"]
    ELSE IF setLevel(LOG_LEVEL) # "none"
         THEN [raises |-> setLevel(LOG_LEVEL), value |-> "None"]
         ELSE [raises |-> "none", value |-> getLogger(package_name)]

Call(fn, arg, outcome) ==
    [fn |-> fn, arg |-> arg, raises |-> outcome.raises, value |-> outcome.value]

\* common.py:11-14
set_log_level(level) ==
    /\ Len(calls) < MaxCalls
    /\ LOG_LEVEL' = level
    /\ calls' = Append(calls, Call("set_log_level", level,
                                    [raises |-> "none", value |-> "None"]))
    /\ UNCHANGED <<lifeVars, storeVars, syncVars, feedVars, ENGINE, created, commonLog>>

\* A caller calls get_logger (common.py:17-32).
get_logger_Call(package_name) ==
    /\ Len(calls) < MaxCalls
    /\ calls' = Append(calls, Call("get_logger", package_name, get_logger(package_name)))
    /\ UNCHANGED <<lifeVars, storeVars, syncVars, feedVars, LOG_LEVEL, ENGINE, created,
                   commonLog>>

\* common.py:35-44: the first call assigns ENGINE and then asks get_logger for
\* the logger to log "created engine" with; an exception of get_logger leaves
\* get_engine before the log call and the return.
get_engine ==
    /\ Len(calls) < MaxCalls
    /\ IF ENGINE = "None"
       THEN /\ ENGINE' = "engine"
            /\ created' = created + 1
            /\ IF get_logger("wemb.common").raises = "none"
               THEN /\ commonLog' = Append(commonLog,
                          [logger |-> "wemb.common", level |-> "INFO",
                           message |-> "created engine", call |-> Len(calls) + 1])
                    /\ calls' = Append(calls, Call("get_engine", "",
                          [raises |-> "none", value |-> "engine"]))
               ELSE /\ commonLog' = commonLog
                    /\ calls' = Append(calls, Call("get_engine", "",
                          [raises |-> get_logger("wemb.common").raises,
                           value |-> "None"]))
       ELSE /\ calls' = Append(calls, Call("get_engine", "",
                  [raises |-> "none", value |-> ENGINE]))
            /\ UNCHANGED <<ENGINE, created, commonLog>>
    /\ UNCHANGED <<lifeVars, storeVars, syncVars, feedVars, LOG_LEVEL>>

CommonNext ==
    \/ \E level \in Levels : set_log_level(level)
    \/ \E package_name \in PackageNames : get_logger_Call(package_name)
    \/ get_engine

\* The utility in a process that has imported it; the rest of the program is
\* not observed.
CommonInit == LifeInit /\ StoreIdle /\ SyncIdle /\ CommonIdle /\ FeedIdle

SpecCommon == CommonInit /\ [][CommonNext]_vars

\* ------------------------------------------------------------------ the feed monitor
\* The monitor (monitor.run_monitor, called at bot.py:286) reads the criteria
\* with their keywords each cycle, evaluates every new feed item against every
\* criterion and notifies the matches; it writes nothing to the store.

\* The feed items explored: listing type, text (a sequence of characters) and
\* the posting author's transaction count.
FeedTexts == { <<"F", "b">>, <<"b", "x", "f">>, <<"a">>, <<"x">> }

FeedItems ==
    [submission_type : SubmissionType, text : FeedTexts,
     author_transactions : {0, 1, 5}]

\* Lower case of the letters the explored texts and keywords use.
LowerChar(ch) ==
    IF ch = "A" THEN "a" ELSE IF ch = "B" THEN "b" ELSE IF ch = "F" THEN "f" ELSE ch

lower(str) == [i \in 1..Len(str) |-> LowerChar(str[i])]

\* Does text hold word as a run of consecutive characters.
Contains(text, word) ==
    \E i \in 0..(Len(text) - Len(word)) : SubSeq(text, i + 1, i + Len(word)) = word

\* Mutant of matches: the keyword test done on the text and the keywords as
\* they are written, without folding their case.
matches_CaseSensitive(item, cr, kws) ==
    /\ item.submission_type = cr.submission_type
    /\ IF cr.all_required
       THEN \A k \in 1..Len(kws) : Contains(item.text, kws[k].content)
       ELSE \E k \in 1..Len(kws) : Contains(item.text, kws[k].content)
    /\ item.author_transactions >= cr.min_transactions

\* The evaluation of one item against one criterion and its keywords: the
\* listing type is the same, the text holds every keyword (all_required) or
\* one of them, case folded, and the author's count reaches min_transactions.
matches(item, cr, kws) ==
    /\ item.submission_type = cr.submission_type
    /\ IF cr.all_required
       THEN \A k \in 1..Len(kws) : Contains(lower(item.text), lower(kws[k].content))
       ELSE \E k \in 1..Len(kws) : Contains(lower(item.text), lower(kws[k].content))
    /\ item.author_transactions >= cr.min_transactions

\* One cycle of the monitor for one new item: the criteria are read with their
\* keywords and a notification goes out for every criterion the item matches.
monitor_Cycle(item) ==
    /\ Len(cycles) < MaxCycles
    /\ tasks[<<"monitor", 1>>].state = "pending"
    /\ cycles' = Append(cycles, item)
    /\ notified' = notified \cup
          {[item |-> item, criterion |-> cr.id] :
               cr \in {x \in criteria : matches(item, x, KeywordsOf(x.id))}}
    /\ UNCHANGED <<lifeVars, storeVars, syncVars, commonVars>>

\* The criteria the monitor is observed with: the rows /searches add persists
\* for "f B" (all required, 5 transactions, want to buy), for "a B" (any one,
\* 1 transaction, want to sell) and for "a a" (all required, 1 transaction,
\* want to sell).
FeedCriteria ==
    { [id |-> 1, submission_type |-> "WTB", all_required |-> TRUE, min_transactions |-> 5],
      [id |-> 2, submission_type |-> "WTS", all_required |-> FALSE, min_transactions |-> 1],
      [id |-> 3, submission_type |-> "WTS", all_required |-> TRUE, min_transactions |-> 1] }

FeedKeywords ==
    << [id |-> 1, criterion_id |-> 1, content |-> <<"f">>],
       [id |-> 2, criterion_id |-> 1, content |-> <<"B">>],
       [id |-> 3, criterion_id |-> 2, content |-> <<"a">>],
       [id |-> 4, criterion_id |-> 2, content |-> <<"B">>],
       [id |-> 5, criterion_id |-> 3, content |-> <<"a">>],
       [id |-> 6, criterion_id |-> 3, content |-> <<"a">> ] >>

\* The process serving, with some of these criteria persisted and no command
\* in flight.
FeedInit ==
    /\ Serving /\ SyncIdle /\ CommonIdle /\ FeedIdle
    /\ criteria \in (SUBSET FeedCriteria) \ {{}}
    /\ keywords = SelectSeq(FeedKeywords,
                            LAMBDA k : k.criterion_id \in {cr.id : cr \in criteria})
    /\ nextId = [criterion |-> 4, keyword |-> 7]
    /\ cmds = << >>

FeedNext == \E item \in FeedItems : monitor_Cycle(item)

SpecFeed == FeedInit /\ [][FeedNext]_vars

\* ------------------------------------------------------------------ the store with the monitor
\* The feed items the monitor meets while commands change the store: one that
\* the criterion of "f B" matches and one that those of "a  a" and " a" match.
WatchedItems ==
    { [submission_type |-> "WTB", text |-> <<"F", "b">>, author_transactions |-> 5],
      [submission_type |-> "WTS", text |-> <<"a">>, author_transactions |-> 1] }

StoreFeedNext ==
    \/ StoreNext
    \/ \E item \in WatchedItems : monitor_Cycle(item)

\* The process serving with the store empty, or holding the rows an earlier
\* /searches add of "a  a" persisted.
StoreFeedInit ==
    /\ Serving /\ SyncIdle /\ CommonIdle /\ FeedIdle
    /\ cmds = << >>
    /\ \/ /\ criteria = {}
          /\ keywords = << >>
          /\ nextId = [criterion |-> 1, keyword |-> 1]
       \/ /\ criteria = {[id |-> 1, submission_type |-> "WTS",
                          all_required |-> FALSE, min_transactions |-> 1]}
          /\ keywords = << [id |-> 1, criterion_id |-> 1, content |-> <<"a">>],
                            [id |-> 2, criterion_id |-> 1, content |-> <<"a">>] >>
          /\ nextId = [criterion |-> 2, keyword |-> 3]

SpecStoreFeed == StoreFeedInit /\ [][StoreFeedNext]_vars

\* ------------------------------------------------------------------ claims: the feed monitor
\* Is the character of the text the letter of the keyword, whatever the case
\* of either.
SameLetter(a, b) ==
    \/ a = b
    \/ <<a, b>> \in {<<"a", "A">>, <<"A", "a">>, <<"b", "B">>, <<"B", "b">>,
                     <<"f", "F">>, <<"F", "f">>}

\* The keywords of criterion cid that occur in the text at some position.
KeywordsFound(text, cid) ==
    {k \in 1..Len(keywords) :
        /\ keywords[k].criterion_id = cid
        /\ \E at \in 1..Len(text) :
              /\ at + Len(keywords[k].content) - 1 <= Len(text)
              /\ \A j \in 1..Len(keywords[k].content) :
                    SameLetter(text[at + j - 1], keywords[k].content[j])}

KeywordsOwned(cid) == {k \in 1..Len(keywords) : keywords[k].criterion_id = cid}

\* C15: for every item a cycle has evaluated and every criterion, the item was
\* notified for the criterion exactly when the listing type is equal, all the
\* criterion's keywords (all_required) or at least one of them occur in the
\* text whatever their case, and the author's count is at least
\* min_transactions; an author count below min_transactions is never notified.
C15_MatchRule ==
    \A i \in DOMAIN cycles : \A cr \in criteria :
        LET item == cycles[i]
            hit == [item |-> item, criterion |-> cr.id] \in notified
        IN  /\ hit <=>
                  /\ item.submission_type = cr.submission_type
                  /\ IF cr.all_required
                     THEN KeywordsFound(item.text, cr.id) = KeywordsOwned(cr.id)
                     ELSE KeywordsFound(item.text, cr.id) # {}
                  /\ ~(item.author_transactions < cr.min_transactions)
            /\ item.author_transactions < cr.min_transactions => ~hit

\* C15's case: one item was notified for an all-required criterion whose
\* keywords it holds in another case, another item of the same type with a
\* lower author count was not.
C15_Witness ==
    \E i, j \in DOMAIN cycles :
        /\ cycles[i].text = <<"F", "b">>
        /\ [item |-> cycles[i], criterion |-> 1] \in notified
        /\ cycles[j].text = <<"F", "b">>
        /\ cycles[j].submission_type = "WTB"
        /\ cycles[j].author_transactions < 5
        /\ [item |-> cycles[j], criterion |-> 1] \notin notified

\* ------------------------------------------------------------------ claims: common.py
EngineCalls == {i \in DOMAIN calls : calls[i].fn = "get_engine"}

\* C13: the engine is constructed at most once, and exactly once when
\* get_engine has been called; every call of get_engine returns that engine;
\* "created engine" is logged once, by the first call of get_engine.
C13_GetEngineIdempotent ==
    /\ created <= 1
    /\ EngineCalls # {} =>
          /\ created = 1
          /\ \A i \in EngineCalls : calls[i].raises = "none" /\ calls[i].value = "engine"
          /\ Len(commonLog) = 1
          /\ commonLog[1].message = "created engine"
          /\ \A i \in EngineCalls : commonLog[1].call <= i

\* C14: every call of get_logger with no package_name or the empty one raises
\* the invalid-input error and returns no logger; every other call returns the
\* logger of that name.
C14_GetLoggerRejectsEmpty ==
    \A i \in DOMAIN calls :
        calls[i].fn = "get_logger" =>
            IF calls[i].arg \in {"None", ""}
            THEN calls[i].raises = "ValueError" /\ calls[i].value = "None"
            ELSE calls[i].raises = "none" /\ calls[i].value = calls[i].arg

\* ------------------------------------------------------------------ claims: the store
NotFoundReply(search_id) == Reply("Search criteria not found for id", search_id, {})

C5_NotFoundState(c) ==
    (cmds[c].kind = "delete" /\ cmds[c].selected = "None") =>
        /\ cmds[c].commits = 0
        /\ cmds[c].deleted = {}
        /\ cmds[c].pc \in {"edit_not_found", "done"}
        /\ cmds[c].reply \in {Reply("Please wait...", 0, {}),
                              NotFoundReply(cmds[c].args.search_id)}
        /\ cmds[c].state = "finished" <=>
              cmds[c].reply = NotFoundReply(cmds[c].args.search_id)

\* C5: a /searches delete whose search_id matches no persisted criterion when
\* its select runs goes to the not-found branch; from there it deletes nothing,
\* commits nothing, no step of it changes the criterion or keyword rows, and
\* when it returns its reply is the not-found message naming the id.
C5_DeleteNotFoundNoEffect ==
    [][\A c \in DOMAIN cmds :
          /\ C5_NotFoundState(c)
          /\ (/\ cmds[c].kind = "delete"
              /\ cmds[c].pc = "scalar"
              /\ cmds'[c].pc # "scalar"
              /\ cmds[c].args.search_id \notin CriterionIds) =>
                 /\ cmds'[c].selected = "None"
                 /\ cmds'[c].pc = "edit_not_found"
          /\ (/\ cmds[c].kind = "delete"
              /\ cmds'[c].selected = "None"
              /\ cmds'[c] # cmds[c]) =>
                 /\ UNCHANGED <<criteria, keywords, nextId>>
                 /\ C5_NotFoundState(c)']_vars

\* C5's case: with a criterion and keywords persisted, a delete of an id that
\* matches none has returned with the not-found reply.
C5_Witness ==
    /\ criteria # {}
    /\ keywords # << >>
    /\ \E c \in DOMAIN cmds :
          /\ cmds[c].kind = "delete"
          /\ cmds[c].state = "finished"
          /\ cmds[c].reply = NotFoundReply(cmds[c].args.search_id)

\* C6: every keyword row belongs to a persisted criterion, and once a delete
\* has committed, neither the criterion it deleted nor a keyword of that
\* criterion is left.
C6_NoOrphanKeywords ==
    /\ \A i \in 1..Len(keywords) : keywords[i].criterion_id \in CriterionIds
    /\ \A c \in DOMAIN cmds :
          (cmds[c].kind = "delete" /\ cmds[c].commits > 0) =>
              /\ cmds[c].criterion \notin CriterionIds
              /\ \A i \in 1..Len(keywords) :
                    keywords[i].criterion_id # cmds[c].criterion

\* C6's case: a delete has committed the removal of a criterion that owned
\* keyword rows.
C6_Witness ==
    \E c \in DOMAIN cmds :
        /\ cmds[c].kind = "delete"
        /\ cmds[c].commits = 1
        /\ cmds[c].deleted # {}
        /\ cmds[c].reply.text = "Successfully deleted!"

\* The positions of value at which a whitespace-separated token begins.
TokenStarts(value) ==
    {i \in 1..Len(value) :
        /\ value[i] \notin Whitespace
        /\ i = 1 \/ value[i - 1] \in Whitespace}

\* The k-th whitespace-separated token of value: from the k-th token start to
\* the last position before the next whitespace character or the end.
Token(value, k) ==
    LET start == CHOOSE i \in TokenStarts(value) :
                     Cardinality({j \in TokenStarts(value) : j < i}) = k - 1
        end == CHOOSE j \in start..Len(value) :
                   /\ \A m \in start..j : value[m] \notin Whitespace
                   /\ j = Len(value) \/ value[j + 1] \in Whitespace
    IN  SubSeq(value, start, end)

\* C7: the commit of a /searches add adds exactly one criterion, with the
\* command's inputs and a new identity, and appends exactly one keyword row
\* per whitespace-separated token of the keywords input, in input order, each
\* owned by the new criterion and holding the token unchanged; every row that
\* was persisted before is still there unchanged, and no other step of an add
\* touches the store.
C7_AddPersistsTokens ==
    [][\A c \in DOMAIN cmds :
          (cmds[c].kind = "add" /\ cmds'[c] # cmds[c]) =>
              IF cmds[c].pc = "commit" /\ cmds'[c].pc = "edit"
              THEN LET a == cmds[c].args
                       n == Cardinality(TokenStarts(a.value))
                       old == Len(keywords)
                   IN  /\ \E cr \in criteria' :
                             /\ cr.id \notin CriterionIds
                             /\ criteria' = criteria \cup {cr}
                             /\ cr.submission_type = a.submission_type
                             /\ cr.all_required = a.all_required
                             /\ cr.min_transactions = a.min_transactions
                             /\ \A k \in 1..n :
                                   /\ keywords'[old + k].criterion_id = cr.id
                                   /\ keywords'[old + k].content = Token(a.value, k)
                       /\ Cardinality(criteria') = Cardinality(criteria) + 1
                       /\ Len(keywords') = old + n
                       /\ SubSeq(keywords', 1, old) = keywords
                       /\ \A k \in 1..n : \A i \in 1..(old + n) :
                             keywords'[i].id = keywords'[old + k].id => i = old + k
              ELSE UNCHANGED <<criteria, keywords, nextId>>]_vars

\* C7's case: two adds have committed, one of them with the input "a  a",
\* whose repeated token is persisted as two rows of the same criterion.
C7_Witness ==
    /\ Cardinality(criteria) = 2
    /\ \E i, j \in 1..Len(keywords) :
          /\ i < j
          /\ keywords[i].criterion_id = keywords[j].criterion_id
          /\ keywords[i].content = keywords[j].content
    /\ \E i \in 1..Len(keywords) : keywords[i].content = <<"B">>

\* ------------------------------------------------------------------ claims: replies, sessions, atomicity
Placeholder(kind) == IF kind = "add" THEN "Creating..." ELSE "Please wait..."

\* C16: a reply reads "Created!" only on an add whose commit has completed and
\* whose criterion was persisted by it, and "Successfully deleted!" only on a
\* delete whose commit has completed; a command that failed or was cancelled
\* shows its placeholder (or nothing, when the placeholder itself was not
\* sent), never a success message.
C16_SuccessReplyImpliesCommit ==
    \A c \in DOMAIN cmds :
        /\ cmds[c].reply.text = "Created!" =>
              /\ cmds[c].kind = "add"
              /\ cmds[c].commits = 1
              /\ cmds[c].criterion # 0
        /\ cmds[c].reply.text = "Successfully deleted!" =>
              /\ cmds[c].kind = "delete"
              /\ cmds[c].commits = 1
        /\ cmds[c].state \in {"failed", "cancelled"} =>
              cmds[c].reply.text \in {"", Placeholder(cmds[c].kind)}

\* C16's case: an add has answered "Created!" after its commit, a delete has
\* committed and then failed or was cancelled before its confirmation.
C16_Witness ==
    \E c, d \in DOMAIN cmds :
        /\ cmds[c].kind = "add"
        /\ cmds[c].reply.text = "Created!"
        /\ cmds[d].kind = "delete"
        /\ cmds[d].commits = 1
        /\ cmds[d].state \in {"failed", "cancelled"}
        /\ cmds[d].reply.text = "Please wait..."

\* The positions at which a handler awaits an outbound chat-platform call.
ChatCalls == {"send_message", "edit", "edit_not_found", "edit_deleted"}

\* C18: a command that has ended, however it ended, holds no open session; an
\* open session belongs to a command in flight; and no command holds an open
\* session while it awaits an outbound chat-platform call.
C18_SessionDiscipline ==
    \A c \in DOMAIN cmds :
        /\ cmds[c].state # "pending" => cmds[c].session # "open"
        /\ cmds[c].session = "open" => cmds[c].state = "pending"
        /\ (cmds[c].state = "pending" /\ cmds[c].pc \in ChatCalls) =>
              cmds[c].session # "open"

\* The contents of the rows of kws that belong to criterion cid, in insertion
\* order.
ContentsIn(kws, cid) ==
    LET own == SelectSeq(kws, LAMBDA k : k.criterion_id = cid)
    IN  [i \in 1..Len(own) |-> own[i].content]

\* C20: every step leaves the store so that a persisted criterion created by
\* an add holds all keyword rows of that add, and a step of an add that has
\* not committed by its end (a failure or a cancellation before the commit
\* among them) leaves the criterion and keyword rows as they were.
C20_AddAtomic ==
    [][\A c \in DOMAIN cmds' :
          cmds'[c].kind = "add" =>
              /\ cmds'[c].criterion \in CriterionIds' =>
                    ContentsIn(keywords', cmds'[c].criterion) =
                        [i \in 1..Len(cmds'[c].args.keywords) |->
                            cmds'[c].args.keywords[i].content]
              /\ cmds'[c].commits = 0 =>
                    /\ cmds'[c].criterion = 0
                    /\ (c \notin DOMAIN cmds \/ cmds'[c] # cmds[c]) =>
                          UNCHANGED <<criteria, keywords>>]_vars

\* C20's case: one add was cancelled while it awaited its commit, another has
\* committed its criterion with both of its keywords.
C20_Witness ==
    \E c, d \in DOMAIN cmds :
        /\ cmds[c].kind = "add"
        /\ cmds[c].state = "cancelled"
        /\ cmds[c].pc = "commit"
        /\ cmds[d].kind = "add"
        /\ cmds[d].criterion \in CriterionIds
        /\ Len(KeywordsOf(cmds[d].criterion)) = 2
        /\ Cardinality(criteria) = 1

\* C19: across every step, a criterion that is persisted before and after it
\* is the same row with the same keywords; a step of a /searches list and a
\* monitor cycle leave the criterion and keyword rows as they were.
C19_CriteriaImmutable ==
    [][/\ \A cr \in criteria :
            cr.id \in CriterionIds' =>
                /\ {x \in criteria' : x.id = cr.id} = {cr}
                /\ KeywordsOf(cr.id)' = KeywordsOf(cr.id)
       /\ \A c \in DOMAIN cmds' :
            (cmds'[c].kind = "list" /\ (c \notin DOMAIN cmds \/ cmds'[c] # cmds[c])) =>
                UNCHANGED <<criteria, keywords, nextId>>
       /\ cycles' # cycles => UNCHANGED <<criteria, keywords, nextId>>]_vars

\* C19's case: with two criteria persisted, a delete has removed the older
\* one, and the monitor has notified an item for the other, which an add of
\* this run created and which still holds its keyword.
C19_Witness ==
    /\ \E c \in DOMAIN cmds : cmds[c].kind = "delete" /\ cmds[c].commits = 1
    /\ \E c \in DOMAIN cmds :
          /\ cmds[c].kind = "add"
          /\ criteria = {cr \in criteria : cr.id = cmds[c].criterion}
          /\ Len(KeywordsOf(cmds[c].criterion)) = 1
          /\ \E n \in notified : n.criterion = cmds[c].criterion
    /\ Cardinality(criteria) = 1

\* ------------------------------------------------------------------ claims: shutdown
LoopStopped == loop \in {"stopped", "closed"}

\* C1: on a termination signal the engine's disposal routine runs exactly
\* once, and before the loop stops, whatever the interleaving: it is never
\* called a second time, and a stopped loop has seen exactly one call.
C1_DisposedExactlyOnceBeforeStop ==
    /\ disposeCount <= 1
    /\ LoopStopped => disposeCount = 1

\* C2: at the step that calls loop.stop(), every task that exists other than
\* the one calling it has been cancelled and has settled, and the calling task
\* was never cancelled by itself.
C2_OthersSettledAtStop ==
    [][(loop = "running" /\ loop' = "stopped") =>
          /\ \A t \in TaskIds \ {stoppedBy'} : tasks'[t].state # "pending"
          /\ ~tasks'[stoppedBy'].must_cancel]_vars

C4_FailuresDiscarded ==
    \A t \in TaskIds :
        Kind(t) = "shutdown" =>
            /\ tasks[t].state # "failed"
            /\ tasks[t].state = "finished" =>
                  /\ \A c \in tasks[t].children : Settled(c)
                  /\ LoopStopped

\* C4's case: a __shutdown task stopped the loop after gathering a task that
\* ended with an exception and a task that ended cancelled.
C4_Witness ==
    \E t \in TaskIds :
        /\ Kind(t) = "shutdown"
        /\ tasks[t].state = "finished"
        /\ stoppedBy = t
        /\ \E c \in tasks[t].children : tasks[c].state = "failed"
        /\ \E c \in tasks[t].children : tasks[c].state = "cancelled"

\* ------------------------------------------------------------------ claims: %sync
\* Calls of tree.sync and copy_global_to made for invocation c.
SyncCallsBy(c) ==
    {i \in 1..Len(treeSyncs) : treeSyncs[i].by = c}
        \cup {i \in 1..Len(guildCopies) : guildCopies[i].by = c}

\* C8: a %sync here without a guild never calls copy_global_to or tree.sync,
\* sends nothing but "Not in a guild context!" and has sent it when it
\* returns; every call of tree.sync or copy_global_to comes from a %sync
\* global or from a %sync here with a guild.
C8_HereNeedsGuild ==
    /\ \A c \in DOMAIN syncs :
          (syncs[c].target = "here" /\ syncs[c].guild = "None") =>
              /\ SyncCallsBy(c) = {}
              /\ syncs[c].sent \in {<< >>, <<<<"Not in a guild context!">>>>}
              /\ syncs[c].state = "finished" =>
                    syncs[c].sent = <<<<"Not in a guild context!">>>>
    /\ \A c \in DOMAIN syncs :
          SyncCallsBy(c) # {} =>
              \/ syncs[c].target = "global"
              \/ syncs[c].target = "here" /\ syncs[c].guild # "None"

\* C8's case: the owner's %sync here outside a guild has returned after the
\* refusal.
C8_Witness ==
    \E c \in DOMAIN syncs :
        /\ syncs[c].target = "here"
        /\ syncs[c].guild = "None"
        /\ syncs[c].owner
        /\ syncs[c].state = "finished"
        /\ syncs[c].sent = <<<<"Not in a guild context!">>>>

\* C9: a %sync whose target is missing or is no literal attempts no sync and
\* is answered, with the parameter's name and the usage string, and never
\* raises; an invocation that ends in the handler with any other error has
\* logged it at error level and raised it again without an answer from the
\* handler. The process goes on: the loop keeps running.
C9_ValidationErrorsAnswered ==
    /\ loop = "running"
    /\ \A c \in DOMAIN syncs :
          /\ syncs[c].error \in {"MissingRequiredArgument", "BadLiteralArgument"} =>
                /\ SyncCallsBy(c) = {}
                /\ syncs[c].state # "raised"
                /\ syncs[c].logged = {}
                /\ syncs[c].state = "finished" =>
                      syncs[c].sent =
                          IF syncs[c].error = "MissingRequiredArgument"
                          THEN <<<<"A value for 'target' is missing!", usage_string>>>>
                          ELSE <<<<"'target' must be either 'here' or 'global'!",
                                   usage_string>>>>
          /\ (syncs[c].owner /\ syncs[c].target = "") =>
                syncs[c].error \in {"none", "MissingRequiredArgument"}
          /\ (syncs[c].owner /\ syncs[c].target = "everywhere") =>
                syncs[c].error \in {"none", "BadLiteralArgument"}
          /\ (syncs[c].error \in {"NotOwner", "CommandInvokeError"}
                  /\ syncs[c].pc = "done") =>
                /\ syncs[c].state = "raised"
                /\ syncs[c].logged # {}
                /\ \A i \in 1..Len(syncs[c].sent) : Len(syncs[c].sent[i]) = 1

\* C9's case: a %sync without target and a %sync everywhere have both been
\* answered.
C9_Witness ==
    \E c, d \in DOMAIN syncs :
        /\ syncs[c].error = "MissingRequiredArgument"
        /\ syncs[c].state = "finished"
        /\ syncs[d].error = "BadLiteralArgument"
        /\ syncs[d].state = "finished"

\* ------------------------------------------------------------------ claims: serving
MonitorTasks == {t \in TaskIds : Kind(t) = "monitor" /\ tasks[t].state # "absent"}

OnReadyTasks == {t \in TaskIds : Kind(t) = "on_ready" /\ tasks[t].state # "absent"}

\* C11: a monitor task exists only once an on_ready task has run to its end
\* (the one that created it), and at most one monitor task is ever created,
\* however many 'ready' events the chat client dispatches.
C11_OneMonitorAfterReady ==
    /\ Cardinality(MonitorTasks) <= 1
    /\ \A t \in MonitorTasks :
          /\ readyCount >= 1
          /\ tasks[<<"on_ready", t[2]>>].state = "finished"

\* C11's case: readiness was signalled twice, both on_ready tasks have ended,
\* and there is one monitor task.
C11_Witness ==
    /\ readyCount = 2
    /\ \A k \in 1..2 : Settled(<<"on_ready", k>>)
    /\ Cardinality(MonitorTasks) = 1

\* C12: with MONITOR_COROUTINE not constructed no monitor task is ever
\* created, and once the command group is registered and no on_ready task is
\* between add_cog and its end, an on_ready task has finished (not failed),
\* the critical line is logged and the loop and the bot task are as they were:
\* commands are still dispatched.
C12_ReadyWithoutMonitor ==
    MONITOR_COROUTINE = "None" =>
        /\ MonitorTasks = {}
        /\ ("searches" \in cogs
              /\ \A t \in OnReadyTasks : tasks[t].pc # "start_monitor") =>
                 /\ \E t \in OnReadyTasks : tasks[t].state = "finished"
                 /\ "critical_monitor_not_initialized" \in logged
                 /\ loop = "running"
                 /\ (tasks[<<"bot", 1>>].state = "pending"
                        /\ readyCount + cmdCount < MaxServe) =>
                       ENABLED Serve_Dispatch(<<"bot", 1>>)

\* C12's case: the chat client became ready without a monitor coroutine,
\* on_ready has finished, and a command dispatched by the bot has been served.
C12_Witness ==
    /\ MONITOR_COROUTINE = "None"
    /\ \E t \in OnReadyTasks : tasks[t].state = "finished"
    /\ "critical_monitor_not_initialized" \in logged
    /\ \E k \in 1..MaxTasks : tasks[<<"command", k>>].state = "finished"

\* The step in which an exception escapes task t.
Fails(t) == tasks[t].state = "pending" /\ tasks'[t].state = "failed"

\* C17: a step in which an exception escapes a command task or the monitor
\* task changes that task only: the loop runs on, the bot task and every
\* other task are as they were and the bot still dispatches commands. A
\* monitor task that has ended stays ended and no other monitor task is
\* created after it.
C17_FailuresIsolated ==
    [][/\ \A t \in TaskIds :
            (Kind(t) \in {"command", "monitor"} /\ Fails(t)) =>
                /\ \A u \in TaskIds \ {t} : tasks'[u] = tasks[u]
                /\ loop' = "running"
                /\ (tasks[<<"bot", 1>>].state = "pending"
                       /\ readyCount + cmdCount < MaxServe) =>
                      (ENABLED Serve_Dispatch(<<"bot", 1>>))'
       /\ \A t \in MonitorTasks :
            Settled(t) =>
                /\ tasks'[t] = tasks[t]
                /\ \A u \in TaskIds : Kind(u) = "monitor" /\ tasks[u].state = "absent"
                                          => tasks'[u].state = "absent"]_vars

\* C17's case: a command and the monitor have both failed, another command has
\* been served since, a second 'ready' event has been handled, and the bot
\* task is still running.
C17_Witness ==
    /\ \E t \in MonitorTasks : tasks[t].state = "failed"
    /\ tasks[<<"command", 1>>].state = "failed"
    /\ tasks[<<"command", 2>>].state = "finished"
    /\ tasks[<<"bot", 1>>].state = "pending"

\* ------------------------------------------------------------------ claims: start-up
NoOptIn == ~asyncSupported /\ ~allow_dirty_shutdown

C10_State ==
    /\ NoOptIn =>
          /\ DB_ENGINE = "None"
          /\ DB_SESSION = "None"
          /\ MONITOR_COROUTINE = "None"
          /\ \A t \in TaskIds : tasks[t].state = "absent"
          /\ \A s \in Signals : handlers[s] = "default"
          /\ rb \in {"register", "exited"}
          /\ rb = "exited" => exitStatus > 0
    /\ exitStatus # -1 => NoOptIn
    /\ (~asyncSupported /\ allow_dirty_shutdown /\ rb # "register") =>
          \A s \in Signals : handlers[s] = "dirty_shutdown"

\* C10: without asynchronous signal handlers and without the opt-in, run_bot
\* exits with a non-zero status before the engine, the monitor coroutine or any
\* task exists; with the opt-in both signals get the synchronous handler, and
\* a run of that handler does nothing but create one not yet started
\* __shutdown task, the routine the asynchronous path schedules.
C10_DirtyShutdownNeedsOptIn ==
    [][/\ C10_State
       /\ C10_State'
       /\ (~asyncSupported /\ sigCount' # sigCount) =>
             /\ \E t \in TaskIds :
                   /\ Kind(t) = "shutdown"
                   /\ tasks[t].state = "absent"
                   /\ tasks' = [tasks EXCEPT ![t] = NewTask("start")]
             /\ UNCHANGED <<rb, exitStatus, handlers, pendingSignals, DB_ENGINE,
                            DB_SESSION, MONITOR_COROUTINE, disposeCount, loop,
                            stoppedBy, cogs, readyCount, cmdCount, logged>>]_vars

\* C10's case: the platform has no asynchronous signal handlers, the opt-in is
\* not set and run_bot has exited with status 1.
C10_Witness ==
    /\ NoOptIn
    /\ rb = "exited"
    /\ exitStatus = 1
    /\ "error_opt_in_required" \in logged

====
